---- MODULE Spec2Model ----
(***************************************************************************)
(* A model of terraform-to-secrets: the walk over a parsed Terraform state *)
(* (terraform.py), the naming policy and the publisher (github.py) and the *)
(* sequence in which main() runs them (cli.py).                            *)
(*                                                                         *)
(* Encoding of the Python values:                                          *)
(*   - a str is a TLA+ string; a username, whose characters the naming     *)
(*     policy rewrites, is a sequence of one-character strings;            *)
(*   - None is the value None below, which is no string of the inputs;     *)
(*   - a dict built by the program (insertion ordered) is a sequence of    *)
(*     <<key, value>> pairs with distinct keys;                            *)
(*   - a JSON object of the state document is a function on its keys.      *)
(***************************************************************************)
EXTENDS Integers, Sequences, FiniteSets, TLC

(***************************************************************************)
(* Bounds of the inputs.                                                   *)
(***************************************************************************)
MaxUsers == 2       \* users in a credential mapping given to create_user_secrets
MaxLen == 2         \* characters in a username
MaxModules == 3     \* modules (the root included) of a state given to find_resources
MaxResources == 3   \* resources of a state given to find_resources
MainModules == 2    \* modules (the root included) of a state read by main()
MainResources == 2  \* resources of a state read by main()

(***************************************************************************)
(* Python values.                                                          *)
(***************************************************************************)
None == "<None>"

\* JSON null where the document holds an object
Null == [null |-> TRUE]

\* a test that takes the empty string for a value
TruthyWhenNotNone(x) == x # None

\* bool(x) for x a str or None
Truthy(x) == x # None /\ x # ""

\* d.get(k) and d.get(k, default) for d a JSON object
Get(d, k) == IF k \in DOMAIN d THEN d[k] ELSE None

GetOr(d, k, default) == IF k \in DOMAIN d THEN d[k] ELSE default

\* one record of the log: the level and the format string with its arguments
Log(level, msg) == [level |-> level, msg |-> msg]

(***************************************************************************)
(* Insertion-ordered dict: a sequence of <<key, value>> with distinct keys. *)
(***************************************************************************)
EmptyDict == <<>>

DictKeys(d) == {d[i][1] : i \in DOMAIN d}

DictLen(d) == Len(d)

\* d[k], for k a key of d
DictGet(d, k) == d[CHOOSE i \in DOMAIN d : d[i][1] = k][2]

\* d[k] = v: an existing key keeps its position, a new key goes last
DictSet(d, k, v) ==
    IF k \in DictKeys(d)
    THEN [i \in DOMAIN d |-> IF d[i][1] = k THEN <<k, v>> ELSE d[i]]
    ELSE Append(d, <<k, v>>)

\* an update that leaves the keys d already has as they are
RECURSIVE DictUpdateKeeping(_, _)
DictUpdateKeeping(d, e) ==
    IF e = <<>> THEN d
    ELSE DictUpdateKeeping(IF Head(e)[1] \in DictKeys(d) THEN d
                           ELSE DictSet(d, Head(e)[1], Head(e)[2]),
                           Tail(e))

\* d.update(e): the items of e assigned in e's order
RECURSIVE DictUpdate(_, _)
DictUpdate(d, e) ==
    IF e = <<>> THEN d
    ELSE DictUpdate(DictSet(d, Head(e)[1], Head(e)[2]), Tail(e))

(***************************************************************************)
(* Characters and strings of the naming policy.                            *)
(***************************************************************************)
\* the characters usernames are drawn from: an ASCII letter, an ASCII non-word
\* character, the underscore and a non-ASCII letter
Chars == {"a", "-", "_", "é"}

\* what the regular expression \w matches on a str pattern: letters and
\* digits of any script, and the underscore
IsWordChar(c) == c \in {"a", "_", "é"}

\* str.upper() on one character
UpperChar(c) ==
    CASE c = "a" -> "A"
      [] c = "é" -> "É"
      [] OTHER -> c

\* the str made of the characters of s
RECURSIVE Join(_)
Join(s) == IF s = <<>> THEN "" ELSE Head(s) \o Join(Tail(s))

\* the characters of Chars that the regular expression \w matches
WordChars == {c \in Chars : IsWordChar(c)}

\* s with every maximal run of characters outside the set word replaced by one
\* underscore
RECURSIVE CollapseRuns(_, _)
CollapseRuns(s, word) ==
    IF s = <<>> THEN <<>>
    ELSE IF Head(s) \in word THEN <<Head(s)>> \o CollapseRuns(Tail(s), word)
    ELSE IF Len(s) > 1 /\ s[2] \notin word THEN CollapseRuns(Tail(s), word)
    ELSE <<"_">> \o CollapseRuns(Tail(s), word)

\* a substitution with the pattern \W+ in place of \W
ReSubNonWordRuns(s) == CollapseRuns(s, WordChars)

\* re.sub(r"\W", "_", s): every non-word character becomes one underscore
ReSubNonWord(s) == [i \in DOMAIN s |-> IF IsWordChar(s[i]) THEN s[i] ELSE "_"]

\* s.upper()
Upper(s) == [i \in DOMAIN s |-> UpperChar(s[i])]

(***************************************************************************)
(* terraform.py                                                            *)
(***************************************************************************)
GITHUB_SECRET_NAME_TAG == "GitHub_Secret_Name"
GITHUB_SECRET_TERRAFORM_LOOKUP_TAG == "GitHub_Secret_Terraform_Lookup"

\* a test for the key alone, which takes an empty or null "values" for a state
NoValuesKey(document) == "values" \notin DOMAIN document

\* `not json_state.get("values")`: the key is absent, or its value is an empty
\* object or null
NoValues(document) ==
    \/ "values" \notin DOMAIN document
    \/ DOMAIN document["values"] = {}
    \/ document["values"] = Null

\* The tags find_tagged_secret works on: empty when the key is absent or null.
TagsOf(resource_data) ==
    IF "tags" \notin DOMAIN resource_data \/ resource_data["tags"] = Null
    THEN [k \in {} |-> None]
    ELSE resource_data["tags"]

\* a lookup that resolves the key in the tags instead of the values
find_tagged_secret_in_tags(resource_name, resource_data) ==
    LET tags == TagsOf(resource_data)
        secret_name == Get(tags, GITHUB_SECRET_NAME_TAG)
        lookup_tag == Get(tags, GITHUB_SECRET_TERRAFORM_LOOKUP_TAG)
    IN  IF Truthy(secret_name) /\ Truthy(lookup_tag) /\ Get(tags, lookup_tag) # None
        THEN [yielded |-> <<<<secret_name, Get(tags, lookup_tag)>>>>, logged |-> <<>>]
        ELSE [yielded |-> <<>>, logged |-> <<>>]

\* find_tagged_secret as the pairs it yields and the records it logs.
find_tagged_secret(resource_name, resource_data) ==
    LET tags == TagsOf(resource_data)
        secret_name == Get(tags, GITHUB_SECRET_NAME_TAG)
        lookup_tag == Get(tags, GITHUB_SECRET_TERRAFORM_LOOKUP_TAG)
        foundName == Log("debug", <<"Found %s on %s with value %s",
                         GITHUB_SECRET_NAME_TAG, resource_name, secret_name>>)
        foundLookup == Log("debug", <<"Found %s on %s with value %s",
                           GITHUB_SECRET_TERRAFORM_LOOKUP_TAG, resource_name, lookup_tag>>)
    IN  IF Truthy(secret_name)
        THEN IF Truthy(lookup_tag)
             THEN LET secret_value == Get(resource_data, lookup_tag)
                  IN  IF secret_value = None
                      THEN [yielded |-> <<>>,
                            logged |-> <<foundName, foundLookup,
                                Log("warning", <<"Could not lookup value with key %s",
                                                 lookup_tag>>)>>]
                      ELSE [yielded |-> <<<<secret_name, secret_value>>>>,
                            logged |-> <<foundName, foundLookup,
                                Log("debug", <<"Looked up value: %s", secret_value>>)>>]
             ELSE [yielded |-> <<>>,
                   logged |-> <<foundName,
                       Log("warning", <<"Missing %s on %s.",
                           GITHUB_SECRET_TERRAFORM_LOOKUP_TAG, resource_name>>)>>]
        ELSE [yielded |-> <<>>, logged |-> <<>>]

\* the resources a module lists: module.get("resources", [])
ResourcesOf(module) == GetOr(module, "resources", <<>>)

\* find_outputs: the non-empty outputs objects of the root module's resources
find_outputs(terraform_state) ==
    LET resources == ResourcesOf(terraform_state["values"]["root_module"])
        withOutputs == SelectSeq(resources,
                           LAMBDA resource : GetOr(resource["values"], "outputs", <<>>) # <<>>)
    IN  [i \in DOMAIN withOutputs |-> withOutputs[i]["values"]["outputs"]]

\* the resources of one list that pass the type filter, in listed order
OfType(resources, resource_type) ==
    SelectSeq(resources,
              LAMBDA resource : resource_type = None \/ resource["type"] = resource_type)

\* a walk that descends into a module's children before yielding its own resources
RECURSIVE find_resources_children_first(_, _)
find_resources_children_first(child_modules, resource_type) ==
    IF child_modules = <<>> THEN <<>>
    ELSE LET child_module == Head(child_modules)
             own == OfType(ResourcesOf(child_module), resource_type)
             nested == IF "child_modules" \in DOMAIN child_module
                       THEN find_resources_children_first(
                                child_module["child_modules"], resource_type)
                       ELSE <<>>
         IN  nested \o own
                 \o find_resources_children_first(Tail(child_modules), resource_type)

RECURSIVE find_resources_in_child_modules(_, _)
find_resources_in_child_modules(child_modules, resource_type) ==
    IF child_modules = <<>> THEN <<>>
    ELSE LET child_module == Head(child_modules)
             own == OfType(ResourcesOf(child_module), resource_type)
             nested == IF "child_modules" \in DOMAIN child_module
                       THEN find_resources_in_child_modules(
                                child_module["child_modules"], resource_type)
                       ELSE <<>>
         IN  own \o nested
                 \o find_resources_in_child_modules(Tail(child_modules), resource_type)

find_resources(terraform_state, resource_type) ==
    LET root_module == terraform_state["values"]["root_module"]
    IN  OfType(ResourcesOf(root_module), resource_type)
            \o (IF "child_modules" \in DOMAIN root_module
                THEN find_resources_in_child_modules(root_module["child_modules"],
                                                     resource_type)
                ELSE <<>>)

\* an extraction that skips the resources lacking one of the three values
RECURSIVE ParseCredsSkipping(_)
ParseCredsSkipping(resources) ==
    IF resources = <<>> THEN [yielded |-> <<>>, raised |-> FALSE]
    ELSE LET values == Head(resources)["values"]
             rest == ParseCredsSkipping(Tail(resources))
         IN  IF {"id", "secret", "user"} \subseteq DOMAIN values
             THEN [yielded |-> <<<<values["user"], values["id"], values["secret"]>>>>
                                  \o rest.yielded,
                   raised |-> FALSE]
             ELSE rest

\* parse_creds: (user, key_id, secret) of every aws_iam_access_key resource in
\* traversal order; the subscripts raise KeyError at the first resource that
\* lacks one of the three values, which ends the generator.
RECURSIVE ParseCredsFrom(_)
ParseCredsFrom(resources) ==
    IF resources = <<>> THEN [yielded |-> <<>>, raised |-> FALSE]
    ELSE LET values == Head(resources)["values"]
         IN  IF {"id", "secret", "user"} \subseteq DOMAIN values
             THEN LET rest == ParseCredsFrom(Tail(resources))
                  IN  [yielded |-> <<<<values["user"], values["id"], values["secret"]>>>>
                                       \o rest.yielded,
                       raised |-> rest.raised]
             ELSE [yielded |-> <<>>, raised |-> TRUE]

parse_creds(terraform_state) ==
    ParseCredsFrom(find_resources(terraform_state, "aws_iam_access_key"))

\* parse_tagged_resources: what find_tagged_secret yields and logs for every
\* resource of the state, in traversal order
parse_tagged_resources(terraform_state) ==
    LET resources == find_resources(terraform_state, None)
    IN  [i \in DOMAIN resources |->
            find_tagged_secret(resources[i]["address"], resources[i]["values"])]

\* the items of every outputs object, in order
RECURSIVE OutputItems(_)
OutputItems(outputsSeq) ==
    IF outputsSeq = <<>> THEN <<>>
    ELSE Head(outputsSeq) \o OutputItems(Tail(outputsSeq))

\* an extraction that takes the outputs of the resources of every module
parse_tagged_outputs_everywhere(terraform_state) ==
    LET resources == SelectSeq(find_resources(terraform_state, None),
                         LAMBDA resource : GetOr(resource["values"], "outputs", <<>>) # <<>>)
        items == OutputItems([i \in DOMAIN resources |-> resources[i]["values"]["outputs"]])
    IN  [i \in DOMAIN items |-> find_tagged_secret(items[i][1], items[i][2])]

\* parse_tagged_outputs: what find_tagged_secret yields and logs for every
\* output of every outputs object find_outputs finds
parse_tagged_outputs(terraform_state) ==
    LET items == OutputItems(find_outputs(terraform_state))
    IN  [i \in DOMAIN items |-> find_tagged_secret(items[i][1], items[i][2])]

\* a loop that keeps the first credentials found for a user
RECURSIVE GetUsersLoopKeeping(_, _, _)
GetUsersLoopKeeping(creds, user_creds, logged) ==
    IF creds = <<>> THEN [user_creds |-> user_creds, logged |-> logged]
    ELSE LET aws_user == Head(creds)[1]
         IN  GetUsersLoopKeeping(Tail(creds),
                 IF aws_user \in DictKeys(user_creds) THEN user_creds
                 ELSE DictSet(user_creds, aws_user, <<Head(creds)[2], Head(creds)[3]>>),
                 Append(logged, Log("info", <<"Found credentials for user: %s",
                                              Join(aws_user)>>)))

\* the loop of get_users over what parse_creds yields
RECURSIVE GetUsersLoop(_, _, _)
GetUsersLoop(creds, user_creds, logged) ==
    IF creds = <<>> THEN [user_creds |-> user_creds, logged |-> logged]
    ELSE LET aws_user == Head(creds)[1]
             aws_key_id == Head(creds)[2]
             aws_secret == Head(creds)[3]
         IN  GetUsersLoop(Tail(creds),
                 DictSet(user_creds, aws_user, <<aws_key_id, aws_secret>>),
                 Append(logged, Log("info", <<"Found credentials for user: %s",
                                              Join(aws_user)>>)))

\* get_users: the mapping it returns, whether it raised instead, and its log
get_users(terraform_state) ==
    LET creds == parse_creds(terraform_state)
        loop == GetUsersLoop(creds.yielded, EmptyDict,
                    <<Log("info", <<"Searching Terraform state for IAM credentials.">>)>>)
    IN  IF creds.raised
        THEN [raised |-> TRUE, user_creds |-> EmptyDict, logged |-> loop.logged]
        ELSE [raised |-> FALSE, user_creds |-> loop.user_creds,
              logged |-> IF DictLen(loop.user_creds) = 0
                         THEN Append(loop.logged, Log("warning", <<"No users found.">>))
                         ELSE loop.logged]

\* the two loops of get_resource_secrets over what the generators produce
RECURSIVE GetResourceSecretsLoop(_, _, _)
GetResourceSecretsLoop(found, secrets, logged) ==
    IF found = <<>> THEN [secrets |-> secrets, logged |-> logged]
    ELSE LET f == Head(found)
         IN  IF f.yielded = <<>>
             THEN GetResourceSecretsLoop(Tail(found), secrets, logged \o f.logged)
             ELSE LET secret_name == f.yielded[1][1]
                      secret_value == f.yielded[1][2]
                  IN  GetResourceSecretsLoop(Tail(found),
                          DictSet(secrets, secret_name, secret_value),
                          Append(logged \o f.logged,
                                 Log("info", <<"Found secret: %s", secret_name>>)))

\* a collection that takes the tagged outputs before the tagged resources
get_resource_secrets_outputs_first(terraform_state) ==
    GetResourceSecretsLoop(
        parse_tagged_outputs(terraform_state) \o parse_tagged_resources(terraform_state),
        EmptyDict,
        <<Log("info", <<"Searching Terraform state for tagged resources.">>)>>)

\* get_resource_secrets: the mapping it returns and its log
get_resource_secrets(terraform_state) ==
    GetResourceSecretsLoop(
        parse_tagged_resources(terraform_state) \o parse_tagged_outputs(terraform_state),
        EmptyDict,
        <<Log("info", <<"Searching Terraform state for tagged resources.">>)>>)

(***************************************************************************)
(* github.py                                                               *)
(***************************************************************************)
\* the characters of the literal parts of GIT_URL_RE
GitAt == <<"g", "i", "t", "@">>

Https == <<"h", "t", "t", "p", "s", ":", "/", "/">>

GithubCom == <<"g", "i", "t", "h", "u", "b", ".", "c", "o", "m">>

DotGit == <<".", "g", "i", "t">>

\* a match of the literal in which "." stands for any character
StartsWithAnyAtDot(s, prefix) ==
    /\ Len(s) >= Len(prefix)
    /\ \A i \in DOMAIN prefix : prefix[i] = "." \/ s[i] = prefix[i]

StartsWith(s, prefix) == Len(s) >= Len(prefix) /\ SubSeq(s, 1, Len(prefix)) = prefix

Drop(s, n) == SubSeq(s, n + 1, Len(s))

\* an end of pattern without the optional ".git"
MatchesEndOfLine(s) == s \in {<<>>, <<"\n">>}

\* what (?:\.git)?$ matches: the end of the string or the newline that ends it,
\* after an optional ".git"
MatchesEnd(s) == s \in {<<>>, <<"\n">>, DotGit, DotGit \o <<"\n">>}

\* GIT_URL_RE.match(s) for s a sequence of characters: whether it matches and
\* the group (.*?), the shortest run without a newline that lets the rest match
GitUrlMatch(s) ==
    LET afterScheme == IF StartsWith(s, GitAt) THEN <<TRUE, Drop(s, Len(GitAt))>>
                       ELSE IF StartsWith(s, Https) THEN <<TRUE, Drop(s, Len(Https))>>
                       ELSE <<FALSE, <<>>>>
        afterHost == IF afterScheme[1] /\ StartsWith(afterScheme[2], GithubCom)
                     THEN <<TRUE, Drop(afterScheme[2], Len(GithubCom))>>
                     ELSE <<FALSE, <<>>>>
        rest == IF afterHost[1] /\ afterHost[2] # <<>> /\ Head(afterHost[2]) \in {":", "/"}
                THEN <<TRUE, Tail(afterHost[2])>>
                ELSE <<FALSE, <<>>>>
        lengths == {k \in 0..Len(rest[2]) :
                       /\ \A i \in 1..k : rest[2][i] # "\n"
                       /\ MatchesEnd(Drop(rest[2], k))}
    IN  IF rest[1] /\ lengths # {}
        THEN [matched |-> TRUE,
              group |-> SubSeq(rest[2], 1,
                               CHOOSE k \in lengths : \A other \in lengths : k <= other)]
        ELSE [matched |-> FALSE, group |-> <<>>]

\* get_repo_name, given how `git remote get-url origin` ran: the name returned or
\* the exception raised, and the log
get_repo_name(c) ==
    LET trying == Log("debug", <<"Trying to determine GitHub repository name using git.">>)
        critical == Log("critical", <<"Could not determine GitHub repository name.">>)
        match == GitUrlMatch(c.stdout)
    IN  IF c.returncode # 0
        THEN [raised |-> TRUE, exception |-> c.stderr, repo_name |-> None,
              logged |-> <<trying, critical>>]
        ELSE IF match.matched
        THEN [raised |-> FALSE, exception |-> None, repo_name |-> Join(match.group),
              logged |-> <<trying>>]
        ELSE [raised |-> TRUE, exception |-> "Could not determine GitHub repository name.",
              repo_name |-> None,
              logged |-> <<trying, critical,
                  Log("critical", <<"Use the --repo option to specify it manually.">>)>>]

\* encrypt: the sealed box of the value for the public key, base64 encoded
encrypt(key, secret_value) == [sealed_for |-> key, plaintext |-> secret_value]

\* a check that raises for the 5xx statuses only
RaisesForServerError(status) == 500 <= status /\ status < 600

\* response.raise_for_status() raises for the 4xx and 5xx statuses
RaisesForStatus(status) == 400 <= status /\ status < 600

PublicKeyUrl(repo) ==
    "https://api.github.com/repos/" \o repo \o "/actions/secrets/public-key"

SecretUrl(repo, secret_name) ==
    "https://api.github.com/repos/" \o repo \o "/actions/secrets/" \o secret_name

\* a suffix added whenever there is a user, also when there is only one
SuffixAlways(user_name, n) ==
    IF n > 0 THEN Join(Upper(<<"_">> \o ReSubNonWord(user_name))) ELSE ""

\* the suffix create_user_secrets gives the names of one user, among n users
Suffix(user_name, n) ==
    IF n > 1 THEN Join(Upper(<<"_">> \o ReSubNonWord(user_name))) ELSE ""

\* a loop that appends the username as it is
RECURSIVE CreateUserSecretsLoopRaw(_, _, _)
CreateUserSecretsLoopRaw(items, n, secrets) ==
    IF items = <<>> THEN secrets
    ELSE LET user_name == Head(items)[1]
             creds == Head(items)[2]
             suffix == IF n > 1 THEN Join(user_name) ELSE ""
         IN  CreateUserSecretsLoopRaw(Tail(items), n,
                 DictSet(DictSet(secrets, "AWS_ACCESS_KEY_ID" \o suffix, creds[1]),
                         "AWS_SECRET_ACCESS_KEY" \o suffix, creds[2]))

RECURSIVE CreateUserSecretsLoop(_, _, _)
CreateUserSecretsLoop(items, n, secrets) ==
    IF items = <<>> THEN secrets
    ELSE LET user_name == Head(items)[1]
             creds == Head(items)[2]
             suffix == Suffix(user_name, n)
         IN  CreateUserSecretsLoop(Tail(items), n,
                 DictSet(DictSet(secrets, "AWS_ACCESS_KEY_ID" \o suffix, creds[1]),
                         "AWS_SECRET_ACCESS_KEY" \o suffix, creds[2]))

\* a naming that takes every mapping for a mapping of one user
create_user_secrets_unsuffixed(user_creds) ==
    CreateUserSecretsLoop(user_creds, 1, EmptyDict)

create_user_secrets(user_creds) ==
    CreateUserSecretsLoop(user_creds, DictLen(user_creds), EmptyDict)

(***************************************************************************)
(* Terraform states: every tree of modules with a given number of modules  *)
(* and of resources, the resources made from a set of templates (a type    *)
(* and the values).  The address of a resource names the path of child     *)
(* module indices to its module and its index there, so no two resources   *)
(* of a state share an address.                                            *)
(***************************************************************************)
RECURSIVE PathStr(_)
PathStr(path) ==
    IF path = <<>> THEN ""
    ELSE "module.m" \o ToString(Head(path)) \o "." \o PathStr(Tail(path))

Address(path, i) == PathStr(path) \o "r" \o ToString(i)

\* the lists of k resources of the module at path
ResourceLists(path, k, templates) ==
    {[i \in 1..k |-> [address |-> Address(path, i),
                      type |-> choice[i].type,
                      values |-> choice[i].values]] : choice \in [1..k -> templates]}

\* a module without children has no "child_modules" key or, when emptyLists is
\* TRUE, possibly an empty list
ModulesOf(resources, child_modules, emptyLists) ==
    IF child_modules = <<>>
    THEN {[resources |-> resources]}
         \cup (IF emptyLists THEN {[resources |-> resources, child_modules |-> <<>>]}
               ELSE {})
    ELSE {[resources |-> resources, child_modules |-> child_modules]}

RECURSIVE ModuleTrees(_, _, _, _, _), ModuleForests(_, _, _, _, _, _)
\* the modules at path whose tree has exactly n modules and r resources
ModuleTrees(path, n, r, templates, emptyLists) ==
    UNION {UNION {ModulesOf(resources, child_modules, emptyLists) :
                      resources \in ResourceLists(path, own, templates),
                      child_modules \in ModuleForests(path, 1, n - 1, r - own, templates,
                                                      emptyLists)} :
           own \in 0..r}

\* the lists of child modules of the module at path, from child j on, whose
\* trees have exactly n modules and r resources together
ModuleForests(path, j, n, r, templates, emptyLists) ==
    IF n = 0 THEN (IF r = 0 THEN {<<>>} ELSE {})
    ELSE UNION {{<<first>> \o rest :
                     first \in ModuleTrees(Append(path, j), k, own, templates, emptyLists),
                     rest \in ModuleForests(path, j + 1, n - k, r - own, templates,
                                            emptyLists)} :
                k \in 1..n, own \in 0..r}

\* the parsed documents with at most maxModules modules and maxResources resources
StatesOver(maxModules, maxResources, templates, emptyLists) ==
    {[format_version |-> "0.1", values |-> [root_module |-> root_module]] :
        root_module \in UNION {ModuleTrees(<<>>, n, r, templates, emptyLists) :
                                  n \in 1..maxModules, r \in 0..maxResources}}

(***************************************************************************)
(* State: the position of the run, the arguments of the call under way and *)
(* its result (the exception, when it raised), the password the keyring    *)
(* holds, the document get_terraform_state() parsed, and the locals of     *)
(* main() and create_all_secrets() with the log written and the HTTP       *)
(* requests issued so far.                                                 *)
(***************************************************************************)
VARIABLES pc, args, result, keyring, json_state, terraform_state, repo_name, github_token,
          user_creds, user_secrets, resource_secrets, all_secrets,
          public_key, position, log, http

vars == <<pc, args, result, keyring, json_state, terraform_state, repo_name, github_token,
          user_creds, user_secrets, resource_secrets, all_secrets,
          public_key, position, log, http>>

\* the keyring and the locals of main() and create_all_secrets()
mainLocals == <<keyring, json_state, terraform_state, repo_name, github_token, user_creds,
                user_secrets, resource_secrets, all_secrets, public_key, position,
                log, http>>

\* main() has assigned none of its locals, logged nothing and sent no request
LocalsIdle ==
    /\ json_state = Null
    /\ terraform_state = Null
    /\ repo_name = None
    /\ github_token = None
    /\ user_creds = EmptyDict
    /\ user_secrets = EmptyDict
    /\ resource_secrets = EmptyDict
    /\ all_secrets = EmptyDict
    /\ public_key = Null
    /\ position = 0
    /\ log = <<>>
    /\ http = <<>>

MainIdle == keyring = None /\ LocalsIdle

(***************************************************************************)
(* find_resources applied to every state within the bounds.                *)
(***************************************************************************)
TypeTemplates ==
    {[type |-> "aws_iam_access_key", values |-> [id |-> "AKIA"]],
     [type |-> "aws_iam_role", values |-> [arn |-> "arn:aws:iam::123:role/x"]]}

InitFind ==
    /\ pc = "find_resources"
    /\ args \in [terraform_state : StatesOver(MaxModules, MaxResources, TypeTemplates, TRUE),
                 resource_type : {None, "aws_iam_access_key", "aws_iam_role", "aws_s3_bucket"}]
    /\ result = <<>>
    /\ MainIdle

FindResources ==
    /\ pc = "find_resources"
    /\ result' = find_resources(args.terraform_state, args.resource_type)
    /\ pc' = "find_resources.returned"
    /\ UNCHANGED <<args, mainLocals>>

NextFind == FindResources

SpecFind == InitFind /\ [][NextFind]_vars

(***************************************************************************)
(* The places of a state's resources, read off the document: the path of   *)
(* child module indices to a module and an index in its resource list.     *)
(***************************************************************************)
ChildrenOf(module) == GetOr(module, "child_modules", <<>>)

RECURSIVE ModulePaths(_, _)
ModulePaths(module, path) ==
    {path} \cup UNION {ModulePaths(ChildrenOf(module)[j], Append(path, j)) :
                          j \in DOMAIN ChildrenOf(module)}

RECURSIVE ModuleAt(_, _)
ModuleAt(module, path) ==
    IF path = <<>> THEN module
    ELSE ModuleAt(ChildrenOf(module)[Head(path)], Tail(path))

RootOf(state) == state["values"]["root_module"]

Places(state) ==
    UNION {{<<path, i>> : i \in DOMAIN ResourcesOf(ModuleAt(RootOf(state), path))} :
           path \in ModulePaths(RootOf(state), <<>>)}

ResourceAt(state, place) == ResourcesOf(ModuleAt(RootOf(state), place[1]))[place[2]]

IsProperPrefix(p, q) == Len(p) < Len(q) /\ SubSeq(q, 1, Len(p)) = p

\* depth-first pre-order on places: listed order inside a module, a module's
\* resources before those of its descendants, an earlier child's subtree
\* before a later child's
PreOrderBefore(a, b) ==
    LET p == a[1]
        q == b[1]
    IN  IF p = q THEN a[2] < b[2]
        ELSE IF IsProperPrefix(p, q) THEN TRUE
        ELSE IF IsProperPrefix(q, p) THEN FALSE
        ELSE LET k == CHOOSE k \in 1..Len(p) :
                          /\ k <= Len(q)
                          /\ p[k] # q[k]
                          /\ \A m \in 1..(k - 1) : p[m] = q[m]
             IN  p[k] < q[k]

\* the places find_resources(state, resource_type) is to yield
PlacesOfType(state, resource_type) ==
    {place \in Places(state) :
        resource_type = None \/ ResourceAt(state, place)["type"] = resource_type}

\* C1: find_resources(state, T) yields each resource whose type is T (every
\* resource when T is None) exactly once, in depth-first pre-order: the i-th
\* resource yielded is the one at the place that has i-1 of the wanted places
\* before it, at any nesting depth.
C1_FindResourcesPreOrder ==
    pc = "find_resources.returned" =>
        LET wanted == PlacesOfType(args.terraform_state, args.resource_type)
        IN  /\ Len(result) = Cardinality(wanted)
            /\ \A i \in DOMAIN result :
                   \E place \in wanted :
                       /\ Cardinality({q \in wanted : PreOrderBefore(q, place)}) = i - 1
                       /\ result[i] = ResourceAt(args.terraform_state, place)
            /\ \A i, j \in DOMAIN result :
                   i # j => result[i]["address"] # result[j]["address"]

\* a walk that yielded a root resource and then a resource two modules deep,
\* and dropped for its type the resource of the module between them
C1_Witness ==
    /\ pc = "find_resources.returned"
    /\ args.resource_type = "aws_iam_access_key"
    /\ {<<<<>>, 1>>, <<<<1>>, 1>>, <<<<1, 1>>, 1>>} \subseteq Places(args.terraform_state)
    /\ ResourceAt(args.terraform_state, <<<<1>>, 1>>)["type"] = "aws_iam_role"
    /\ Len(result) = 2
    /\ result[1] = ResourceAt(args.terraform_state, <<<<>>, 1>>)
    /\ result[2] = ResourceAt(args.terraform_state, <<<<1, 1>>, 1>>)

(***************************************************************************)
(* find_tagged_secret applied to resource data whose tags are absent, null *)
(* or an object, with each of the two tags and the looked-up values        *)
(* absent, null, empty or set.                                             *)
(***************************************************************************)
Absent == "<absent>"

\* the JSON object with the keys of f that are not marked absent
Obj(f) == [k \in {k \in DOMAIN f : f[k] # Absent} |-> f[k]]

TagObjects ==
    {Obj([GitHub_Secret_Name |-> name, GitHub_Secret_Terraform_Lookup |-> lookup,
          arn |-> tagged]) :
        name \in {Absent, None, "", "BUILD_ROLE_TO_ASSUME"},
        lookup \in {Absent, None, "", "arn", "id"},
        tagged \in {Absent, "arn:from:tags"}}

TaggedData ==
    {[k \in DOMAIN data \cup {"tags"} |-> IF k = "tags" THEN tags ELSE data[k]] :
         tags \in TagObjects \cup {Null},
         data \in {Obj([arn |-> arn, id |-> id]) :
                       arn \in {Absent, None, "", "arn:aws:iam::123:role/x"},
                       id \in {Absent, "AKIA"}}}
    \cup {Obj([arn |-> arn, id |-> "AKIA"]) : arn \in {Absent, None, "arn:aws:iam::123:role/x"}}

InitTagged ==
    /\ pc = "find_tagged_secret"
    /\ args \in [resource_name : {"aws_iam_role.build"}, resource_data : TaggedData]
    /\ result = <<>>
    /\ MainIdle

FindTaggedSecret ==
    /\ pc = "find_tagged_secret"
    /\ result' = find_tagged_secret(args.resource_name, args.resource_data)
    /\ pc' = "find_tagged_secret.returned"
    /\ UNCHANGED <<args, mainLocals>>

NextTagged == FindTaggedSecret

SpecTagged == InitTagged /\ [][NextTagged]_vars

\* the tags of the resource data, empty when the key is absent or null
ClaimedTags(resource_data) ==
    IF "tags" \in DOMAIN resource_data
    THEN (IF resource_data["tags"] = Null THEN <<>> ELSE resource_data["tags"])
    ELSE <<>>

HasValue(object, k) == k \in DOMAIN object /\ object[k] # None

HasText(object, k) == HasValue(object, k) /\ object[k] # ""

\* C2 as stated: find_tagged_secret yields exactly the pair (name tag, values[lookup
\* tag]) when the name tag is present, the lookup tag is present and the lookup
\* key is present in the values, and nothing in every other case.  (A null is
\* counted as absent here, so that the statement fails only where a tag that is
\* a string, or a value that is a string, is present.)
C2_YieldsWhenPresent ==
    pc = "find_tagged_secret.returned" =>
        LET data == args.resource_data
            tags == ClaimedTags(data)
        IN  IF /\ HasValue(tags, GITHUB_SECRET_NAME_TAG)
               /\ HasValue(tags, GITHUB_SECRET_TERRAFORM_LOOKUP_TAG)
               /\ HasValue(data, tags[GITHUB_SECRET_TERRAFORM_LOOKUP_TAG])
            THEN result.yielded =
                     <<<<tags[GITHUB_SECRET_NAME_TAG],
                         data[tags[GITHUB_SECRET_TERRAFORM_LOOKUP_TAG]]>>>>
            ELSE result.yielded = <<>>

\* C2 amended: find_tagged_secret yields exactly the pair (name tag, values[lookup
\* tag]) when the name tag is present and neither null nor empty, the lookup tag
\* is present and neither null nor empty, and the lookup key is present in the
\* values with a value that is not null; it yields nothing in every other case,
\* never more than one pair, and the value comes from the values, not the tags.
C2_YieldsWhenSet ==
    pc = "find_tagged_secret.returned" =>
        LET data == args.resource_data
            tags == ClaimedTags(data)
        IN  /\ Len(result.yielded) <= 1
            /\ IF /\ HasText(tags, GITHUB_SECRET_NAME_TAG)
                  /\ HasText(tags, GITHUB_SECRET_TERRAFORM_LOOKUP_TAG)
                  /\ HasValue(data, tags[GITHUB_SECRET_TERRAFORM_LOOKUP_TAG])
               THEN result.yielded =
                        <<<<tags[GITHUB_SECRET_NAME_TAG],
                            data[tags[GITHUB_SECRET_TERRAFORM_LOOKUP_TAG]]>>>>
               ELSE result.yielded = <<>>

\* a secret yielded from the values while the tags hold another value under
\* the looked-up key
C2_Witness ==
    /\ pc = "find_tagged_secret.returned"
    /\ "tags" \in DOMAIN args.resource_data
    /\ args.resource_data["tags"] # Null
    /\ Get(args.resource_data["tags"], "arn") = "arn:from:tags"
    /\ result.yielded = <<<<"BUILD_ROLE_TO_ASSUME", "arn:aws:iam::123:role/x">>>>

(***************************************************************************)
(* create_user_secrets applied to every credential mapping of at most      *)
(* MaxUsers distinct users with names of 1..MaxLen characters; the i-th    *)
(* user of a mapping has the key id AKIAi and the secret wJalri.           *)
(***************************************************************************)
UserNames == UNION {[1..n -> Chars] : n \in 1..MaxLen}

CredsOf(i) == <<"AKIA" \o ToString(i), "wJalr" \o ToString(i)>>

\* the credential mappings of n distinct users
UserCredsOf(n) ==
    {[i \in 1..n |-> <<users[i], CredsOf(i)>>] :
        users \in {u \in [1..n -> UserNames] : \A i, j \in 1..n : i # j => u[i] # u[j]}}

InitUsers ==
    /\ pc = "create_user_secrets"
    /\ \E n \in 0..MaxUsers : args \in [user_creds : UserCredsOf(n)]
    /\ result = <<>>
    /\ MainIdle

CreateUserSecrets ==
    /\ pc = "create_user_secrets"
    /\ result' = create_user_secrets(args.user_creds)
    /\ pc' = "create_user_secrets.returned"
    /\ UNCHANGED <<args, mainLocals>>

NextUsers == CreateUserSecrets

SpecUsers == InitUsers /\ [][NextUsers]_vars

\* the value a mapping holds under key k, None when k is no key of it
ValueAt(d, k) == IF k \in DictKeys(d) THEN DictGet(d, k) ELSE None

\* C8: for a mapping with exactly one user, create_user_secrets returns exactly
\* AWS_ACCESS_KEY_ID -> that user's key id and AWS_SECRET_ACCESS_KEY -> that
\* user's secret, without suffix; for an empty mapping it returns an empty one.
C8_SingleUserNoSuffix ==
    pc = "create_user_secrets.returned" =>
        /\ Len(args.user_creds) = 0 => result = <<>>
        /\ Len(args.user_creds) = 1 =>
               /\ Len(result) = 2
               /\ DictKeys(result) = {"AWS_ACCESS_KEY_ID", "AWS_SECRET_ACCESS_KEY"}
               /\ ValueAt(result, "AWS_ACCESS_KEY_ID") = args.user_creds[1][2][1]
               /\ ValueAt(result, "AWS_SECRET_ACCESS_KEY") = args.user_creds[1][2][2]

\* the single user's two secrets returned under the unsuffixed names
C8_Witness ==
    /\ pc = "create_user_secrets.returned"
    /\ args.user_creds = <<<<<<"a", "-">>, CredsOf(1)>>>>
    /\ result = <<<<"AWS_ACCESS_KEY_ID", "AKIA1">>, <<"AWS_SECRET_ACCESS_KEY", "wJalr1">>>>

\* the ASCII characters of Chars, and those of them in [A-Za-z0-9_]
AsciiChars == {"a", "-", "_"}

AsciiWordChars == {"a", "_"}

\* the suffix as C9 states it: runs of characters outside [A-Za-z0-9_] collapsed
\* to one underscore, upper-cased, after an underscore
StatedSuffix(user_name) ==
    Join(Upper(<<"_">> \o CollapseRuns(user_name, AsciiWordChars)))

\* the suffix written out character by character: "a" becomes "A", "é" becomes
\* "É", "-" becomes "_", and "_" stays
SuffixChar(c) ==
    CASE c = "a" -> "A"
      [] c = "é" -> "É"
      [] c = "-" -> "_"
      [] c = "_" -> "_"

CharwiseSuffix(user_name) == "_" \o Join([i \in DOMAIN user_name |-> SuffixChar(user_name[i])])

\* the names create_user_secrets is to emit for the users of a mapping
NamesWith(creds_by_user, SuffixOf(_)) ==
    UNION {{"AWS_ACCESS_KEY_ID" \o SuffixOf(creds_by_user[i][1]),
            "AWS_SECRET_ACCESS_KEY" \o SuffixOf(creds_by_user[i][1])} :
           i \in DOMAIN creds_by_user}

\* C9 as stated: with more than one user, the names emitted are AWS_ACCESS_KEY_ID
\* and AWS_SECRET_ACCESS_KEY followed by "_" and the upper-cased username in
\* which every run of characters outside [A-Za-z0-9_] is one underscore.
\* (Stated for ASCII usernames, where [A-Za-z0-9_] is what \w matches.)
C9_SuffixCollapsesRuns ==
    (/\ pc = "create_user_secrets.returned"
     /\ Len(args.user_creds) > 1
     /\ \A i \in DOMAIN args.user_creds :
            \A k \in DOMAIN args.user_creds[i][1] :
                args.user_creds[i][1][k] \in AsciiChars) =>
        DictKeys(result) = NamesWith(args.user_creds, StatedSuffix)

\* C9 amended: with more than one user, the names emitted are AWS_ACCESS_KEY_ID
\* and AWS_SECRET_ACCESS_KEY followed by "_" and the upper-cased username in
\* which each character that is neither a letter or digit (of any script) nor
\* the underscore is replaced by an underscore of its own.
C9_SuffixPerCharacter ==
    (pc = "create_user_secrets.returned" /\ Len(args.user_creds) > 1) =>
        DictKeys(result) = NamesWith(args.user_creds, CharwiseSuffix)

\* two users, one with a run of two non-word characters and one with a
\* non-ASCII letter, named with two underscores for the run and the letter kept
C9_Witness ==
    /\ pc = "create_user_secrets.returned"
    /\ args.user_creds = <<<<<<"-", "-">>, CredsOf(1)>>, <<<<"é", "a">>, CredsOf(2)>>>>
    /\ DictKeys(result) = {"AWS_ACCESS_KEY_ID___", "AWS_SECRET_ACCESS_KEY___",
                           "AWS_ACCESS_KEY_ID_ÉA", "AWS_SECRET_ACCESS_KEY_ÉA"}

\* C10: for n > 1 distinct users create_user_secrets returns exactly 2n entries,
\* and each user's two names map to that user's own key id and secret.
C10_NoUserDropped ==
    (pc = "create_user_secrets.returned" /\ Len(args.user_creds) > 1) =>
        /\ Len(result) = 2 * Len(args.user_creds)
        /\ \A i \in DOMAIN args.user_creds :
               LET user_name == args.user_creds[i][1]
                   creds == args.user_creds[i][2]
               IN  /\ ValueAt(result, "AWS_ACCESS_KEY_ID" \o CharwiseSuffix(user_name))
                          = creds[1]
                   /\ ValueAt(result, "AWS_SECRET_ACCESS_KEY" \o CharwiseSuffix(user_name))
                          = creds[2]

(***************************************************************************)
(* main(): one run of the command, on every combination of its arguments,  *)
(* of what the keyring holds, of how git ran, of the state document read   *)
(* and of the status of every HTTP response.                               *)
(***************************************************************************)
KEYRING_SERVICE == "terraform-to-secrets"
KEYRING_USERNAME == "GitHub PAT"

\* personal access tokens (40 characters in the program)
TokenA == "ghp_tokenA"
TokenB == "ghp_tokenB"

\* the validated arguments: the save command with its token, a run with the
\* repository, the state file and the token given, or a run without them
MainArgs ==
    {[save |-> TRUE, token_to_save |-> TokenA, dry_run |-> FALSE, repo |-> None,
      state |-> None, token |-> None]}
    \cup [save : {FALSE}, token_to_save : {None}, dry_run : BOOLEAN,
          repo : {"cisagov/example"}, state : {"state.json"}, token : {TokenA}]
    \cup [save : {FALSE}, token_to_save : {None}, dry_run : BOOLEAN,
          repo : {None}, state : {None}, token : {None}]

\* how `git remote get-url origin` can run
GitRuns ==
    {[returncode |-> 128, stdout |-> <<>>, stderr |-> "fatal: not a git repository"],
     [returncode |-> 0, stderr |-> "",
      stdout |-> GitAt \o GithubCom \o <<":", "o", "/", "r">> \o DotGit \o <<"\n">>],
     [returncode |-> 0, stderr |-> "",
      stdout |-> Https \o <<"g", "i", "t", "l", "a", "b", ".", "c", "o", "m", "/", "o", "/", "r", "\n">>]}

UserA == <<"a">>
UserB == <<"a", "-", "a">>

\* the resources the state documents read by main() are made of
MainTemplates ==
    {[type |-> "aws_iam_access_key",
      values |-> [id |-> "AKIA1", secret |-> "wJalr1", user |-> UserA]],
     [type |-> "aws_iam_access_key",
      values |-> [id |-> "AKIA2", secret |-> "wJalr2", user |-> UserA]],
     [type |-> "aws_iam_access_key",
      values |-> [id |-> "AKIA3", secret |-> "wJalr3", user |-> UserB]],
     [type |-> "aws_iam_access_key",
      values |-> [id |-> "AKIA4", user |-> UserA]],
     [type |-> "aws_iam_role",
      values |-> [arn |-> "arn:aws:iam::123:role/x",
                  tags |-> [GitHub_Secret_Name |-> "BUILD_ROLE_TO_ASSUME",
                            GitHub_Secret_Terraform_Lookup |-> "arn"]]],
     [type |-> "aws_iam_role",
      values |-> [arn |-> "arn:aws:iam::123:role/y",
                  tags |-> [GitHub_Secret_Name |-> "AWS_ACCESS_KEY_ID",
                            GitHub_Secret_Terraform_Lookup |-> "arn"]]],
     [type |-> "aws_iam_access_key",
      values |-> [secret |-> "wJalr5"]],
     [type |-> "terraform_remote_state",
      values |-> [tags |-> Null,
                  outputs |-> <<<<"role", [value |-> "arn:aws:iam::123:role/out",
                                           tags |-> [GitHub_Secret_Name |-> "BUILD_ROLE_TO_ASSUME",
                                                     GitHub_Secret_Terraform_Lookup |-> "value"]]>>,
                                <<"plain", [value |-> "text"]>>>>]]}

\* what json.loads can return: a document whose "values" is absent, null or
\* empty, or a state with at most maxModules modules and maxResources resources
Documents(maxModules, maxResources) ==
    StatesOver(maxModules, maxResources, MainTemplates, FALSE)
    \cup {[format_version |-> "0.1"],
          [format_version |-> "0.1", values |-> Null],
          [format_version |-> "0.1", values |-> [k \in {} |-> None]]}

GetStatuses == {200, 404}
PutStatuses == {201, 403}

\* the public keys a repository can answer with
PublicKeys == {[key |-> "base64key1", key_id |-> "kid1"],
               [key |-> "base64key2", key_id |-> "kid2"]}

Init ==
    /\ pc = "main"
    /\ args \in MainArgs
    /\ result = <<>>
    /\ keyring \in {None, TokenB}
    /\ LocalsIdle

\* the exception that ends the run, as the run's result
Raise(exception) ==
    /\ pc' = "failed"
    /\ result' = [raised |-> exception]

\* cli.py 131-135: the save command
MainSave ==
    /\ pc = "main"
    /\ args.save
    /\ keyring' = args.token_to_save
    /\ log' = log \o <<Log("info", <<"Saving the GitHub personal access token to the keyring.">>),
                       Log("info", <<"Success!">>)>>
    /\ pc' = "done"
    /\ UNCHANGED <<args, result, json_state, terraform_state, repo_name, github_token,
                   user_creds, user_secrets, resource_secrets, all_secrets, public_key,
                   position, http>>

\* cli.py 138-140: the repository name, from the option or from git
MainRepoName ==
    /\ pc = "main"
    /\ ~args.save
    /\ IF args.repo # None
       THEN /\ repo_name' = args.repo
            /\ log' = Append(log, Log("info", <<"Using GitHub repository name: %s", args.repo>>))
            /\ pc' = "token"
            /\ UNCHANGED result
       ELSE \E c \in GitRuns :
               LET r == get_repo_name(c)
               IN  IF r.raised
                   THEN /\ log' = log \o r.logged
                        /\ Raise(r.exception)
                        /\ UNCHANGED repo_name
                   ELSE /\ repo_name' = r.repo_name
                        /\ log' = log \o r.logged
                              \o <<Log("info", <<"Using GitHub repository name: %s",
                                                 r.repo_name>>)>>
                        /\ pc' = "token"
                        /\ UNCHANGED result
    /\ UNCHANGED <<args, keyring, json_state, terraform_state, github_token, user_creds, user_secrets,
                   resource_secrets, all_secrets, public_key, position, http>>

\* a step that writes the token it retrieved to the log
MainTokenLogged ==
    /\ pc = "token"
    /\ IF args.token # None
       THEN /\ github_token' = args.token
            /\ pc' = "get_terraform_state"
            /\ UNCHANGED log
       ELSE IF keyring = None
       THEN /\ log' = log \o <<Log("debug", <<"GitHub token not provided in arguments.  Checking keyring.">>),
                               Log("critical", <<"GitHub token not provided on command line or found in keychain.">>)>>
            /\ pc' = "exited"
            /\ UNCHANGED github_token
       ELSE /\ github_token' = keyring
            /\ log' = log \o <<Log("debug", <<"GitHub token not provided in arguments.  Checking keyring.">>),
                               Log("info", <<"GitHub token %s retrieved from keyring.", keyring>>)>>
            /\ pc' = "get_terraform_state"
    /\ UNCHANGED <<args, result, keyring, json_state, terraform_state, repo_name, user_creds,
                   user_secrets, resource_secrets, all_secrets, public_key, position, http>>

\* cli.py 123, 142-151: the token, from the option or from the keyring
MainToken ==
    /\ pc = "token"
    /\ IF args.token # None
       THEN /\ github_token' = args.token
            /\ pc' = "get_terraform_state"
            /\ UNCHANGED log
       ELSE IF keyring = None
       THEN /\ log' = log \o <<Log("debug", <<"GitHub token not provided in arguments.  Checking keyring.">>),
                               Log("critical", <<"GitHub token not provided on command line or found in keychain.">>)>>
            /\ pc' = "exited"
            /\ UNCHANGED github_token
       ELSE /\ github_token' = keyring
            /\ log' = log \o <<Log("debug", <<"GitHub token not provided in arguments.  Checking keyring.">>),
                               Log("info", <<"GitHub token retrieved from keyring.">>)>>
            /\ pc' = "get_terraform_state"
    /\ UNCHANGED <<args, result, keyring, json_state, terraform_state, repo_name, user_creds,
                   user_secrets, resource_secrets, all_secrets, public_key, position, http>>

\* cli.py 154 and terraform.py 20-32: get_terraform_state reads the state from
\* the file or from `terraform show --json` and parses it
MainLoadState ==
    /\ pc = "get_terraform_state"
    /\ \E document \in Documents(MainModules, MainResources) : json_state' = document
    /\ log' = Append(log, IF args.state # None
                          THEN Log("info", <<"Reading state from json file %s", args.state>>)
                          ELSE Log("info", <<"Reading state from Terraform command.">>))
    /\ pc' = "check_values"
    /\ UNCHANGED <<args, result, keyring, terraform_state, repo_name, github_token,
                   user_creds, user_secrets, resource_secrets, all_secrets, public_key,
                   position, http>>

\* terraform.py 34-37: get_terraform_state rejects a state without values
MainCheckValues ==
    /\ pc = "check_values"
    /\ IF NoValues(json_state)
       THEN /\ log' = Append(log, Log("critical",
                                      <<"Is there a .terraform state directory here?">>))
            /\ Raise("No Terraform state found.")
            /\ UNCHANGED terraform_state
       ELSE /\ terraform_state' = json_state
            /\ pc' = "get_users"
            /\ UNCHANGED <<result, log>>
    /\ UNCHANGED <<args, keyring, json_state, repo_name, github_token, user_creds,
                   user_secrets, resource_secrets, all_secrets, public_key, position, http>>

\* cli.py 157
MainGetUsers ==
    /\ pc = "get_users"
    /\ LET r == get_users(terraform_state)
       IN  /\ log' = log \o r.logged
           /\ IF r.raised
              THEN /\ Raise("KeyError")
                   /\ UNCHANGED user_creds
              ELSE /\ user_creds' = r.user_creds
                   /\ pc' = "create_user_secrets"
                   /\ UNCHANGED result
    /\ UNCHANGED <<args, keyring, json_state, terraform_state, repo_name, github_token, user_secrets,
                   resource_secrets, all_secrets, public_key, position, http>>

\* cli.py 160
MainCreateUserSecrets ==
    /\ pc = "create_user_secrets"
    /\ user_secrets' = create_user_secrets(user_creds)
    /\ pc' = "get_resource_secrets"
    /\ UNCHANGED <<args, result, keyring, json_state, terraform_state, repo_name, github_token,
                   user_creds, resource_secrets, all_secrets, public_key, position,
                   log, http>>

\* cli.py 163
MainGetResourceSecrets ==
    /\ pc = "get_resource_secrets"
    /\ LET r == get_resource_secrets(terraform_state)
       IN  /\ resource_secrets' = r.secrets
           /\ log' = log \o r.logged
    /\ pc' = "merge"
    /\ UNCHANGED <<args, result, keyring, json_state, terraform_state, repo_name, github_token,
                   user_creds, user_secrets, all_secrets, public_key, position, http>>

\* cli.py 166-171: warn of overlapping names, then merge with the user secrets last
MainMerge ==
    /\ pc = "merge"
    /\ log' = IF DictKeys(user_secrets) \cap DictKeys(resource_secrets) # {}
              THEN Append(log, Log("warning",
                       <<"User secret names overlap with resource secret names.">>))
              ELSE log
    /\ all_secrets' = DictUpdate(resource_secrets, user_secrets)
    /\ pc' = "create_all_secrets"
    /\ UNCHANGED <<args, result, keyring, json_state, terraform_state, repo_name, github_token,
                   user_creds, user_secrets, resource_secrets, public_key, position, http>>

\* github.py 98-103 and get_public_key: open the session and fetch the public key
GetPublicKey ==
    /\ pc = "create_all_secrets"
    /\ log' = log \o <<Log("info", <<"Creating GitHub API session using personal access token.">>),
                       Log("info", <<"Requesting public key for repository %s", repo_name>>)>>
    /\ \E status \in GetStatuses, key \in PublicKeys :
          /\ http' = Append(http, [method |-> "GET", url |-> PublicKeyUrl(repo_name),
                                   auth |-> <<"", github_token>>, json |-> Null,
                                   status |-> status])
          /\ IF RaisesForStatus(status)
             THEN /\ Raise("HTTPError")
                  /\ UNCHANGED <<public_key, position>>
             ELSE /\ public_key' = key
                  /\ position' = 1
                  /\ pc' = "for_secret"
                  /\ UNCHANGED result
    /\ UNCHANGED <<args, keyring, json_state, terraform_state, repo_name, github_token, user_creds,
                   user_secrets, resource_secrets, all_secrets>>

\* a request that carries the id of a key kept from an earlier run
set_secret_cached_key(secret_name, secret_value) ==
    /\ log' = Append(log, Log("info", <<"Creating secret %s", secret_name>>))
    /\ \E status \in PutStatuses :
          /\ http' = Append(http,
                 [method |-> "PUT", url |-> SecretUrl(repo_name, secret_name),
                  auth |-> <<"", github_token>>,
                  json |-> [encrypted_value |-> encrypt("base64key1", secret_value),
                            key_id |-> "kid1"],
                  status |-> status])
          /\ IF RaisesForStatus(status)
             THEN /\ Raise("HTTPError")
                  /\ UNCHANGED position
             ELSE /\ position' = position + 1
                  /\ UNCHANGED <<pc, result>>

\* set_secret: log, encrypt the value, PUT it with the key id, raise for an
\* error status
set_secret(secret_name, secret_value) ==
    /\ log' = Append(log, Log("info", <<"Creating secret %s", secret_name>>))
    /\ \E status \in PutStatuses :
          /\ http' = Append(http,
                 [method |-> "PUT", url |-> SecretUrl(repo_name, secret_name),
                  auth |-> <<"", github_token>>,
                  json |-> [encrypted_value |-> encrypt(public_key["key"], secret_value),
                            key_id |-> public_key["key_id"]],
                  status |-> status])
          /\ IF RaisesForStatus(status)
             THEN /\ Raise("HTTPError")
                  /\ UNCHANGED position
             ELSE /\ position' = position + 1
                  /\ UNCHANGED <<pc, result>>

\* a turn of the loop that creates the secret whatever dry_run is
ForSecretCreating ==
    /\ pc = "for_secret"
    /\ position <= Len(all_secrets)
    /\ set_secret(all_secrets[position][1], all_secrets[position][2])
    /\ UNCHANGED <<args, keyring, json_state, terraform_state, repo_name, github_token,
                   user_creds, user_secrets, resource_secrets, all_secrets, public_key>>

\* github.py 105-109: one turn of the loop over secrets.items()
ForSecret ==
    /\ pc = "for_secret"
    /\ position <= Len(all_secrets)
    /\ LET secret_name == all_secrets[position][1]
           secret_value == all_secrets[position][2]
       IN  IF args.dry_run
           THEN /\ log' = Append(log, Log("info", <<"Would create secret %s", secret_name>>))
                /\ position' = position + 1
                /\ UNCHANGED <<pc, result, http>>
           ELSE set_secret(secret_name, secret_value)
    /\ UNCHANGED <<args, keyring, json_state, terraform_state, repo_name, github_token,
                   user_creds, user_secrets, resource_secrets, all_secrets, public_key>>

\* cli.py 174-176: create_all_secrets returns and main() reports success
MainSuccess ==
    /\ pc = "for_secret"
    /\ position > Len(all_secrets)
    /\ log' = Append(log, Log("info", <<"Success!">>))
    /\ pc' = "done"
    /\ UNCHANGED <<args, result, keyring, json_state, terraform_state, repo_name, github_token,
                   user_creds, user_secrets, resource_secrets, all_secrets, public_key,
                   position, http>>

Next ==
    \/ MainSave
    \/ MainRepoName
    \/ MainToken
    \/ MainLoadState
    \/ MainCheckValues
    \/ MainGetUsers
    \/ MainCreateUserSecrets
    \/ MainGetResourceSecrets
    \/ MainMerge
    \/ GetPublicKey
    \/ ForSecret
    \/ MainSuccess

Spec == Init /\ [][Next]_vars

(***************************************************************************)
(* Properties of a run of main().                                          *)
(***************************************************************************)
LogHas(msg) == \E i \in DOMAIN log : log[i].msg = msg

Is2xx(status) == 200 <= status /\ status <= 299

Puts == {i \in DOMAIN http : http[i].method = "PUT"}

OverlapWarning == Log("warning", <<"User secret names overlap with resource secret names.">>)

\* C3: the merge step of main() never fails and goes on to create_all_secrets;
\* the mapping it passes on has as keys exactly the credential-derived and the
\* tagged-resource-derived names, a name present in both has the
\* credential-derived value, and when there is such a name a warning is logged.
C3_MergedMapping ==
    [][pc = "merge" =>
          /\ pc' = "create_all_secrets"
          /\ result' = result
          /\ DictKeys(all_secrets') = DictKeys(user_secrets) \cup DictKeys(resource_secrets)
          /\ \A k \in DictKeys(user_secrets) \cap DictKeys(resource_secrets) :
                 ValueAt(all_secrets', k) = ValueAt(user_secrets, k)
          /\ (DictKeys(user_secrets) \cap DictKeys(resource_secrets) # {}
                  => log' = Append(log, OverlapWarning))]_vars

\* a run in which a tagged resource and the single user both gave the name
\* AWS_ACCESS_KEY_ID, the warning was logged and the key id was published
C3_Witness ==
    /\ pc = "done"
    /\ ValueAt(user_secrets, "AWS_ACCESS_KEY_ID") = "AKIA1"
    /\ ValueAt(resource_secrets, "AWS_ACCESS_KEY_ID") = "arn:aws:iam::123:role/y"
    /\ LogHas(OverlapWarning.msg)
    /\ \E i \in Puts :
          /\ http[i].url = SecretUrl(repo_name, "AWS_ACCESS_KEY_ID")
          /\ http[i].json.encrypted_value.plaintext = "AKIA1"

\* the document has no top-level "values" entry, or an empty or null one
LacksValues(document) ==
    \/ "values" \notin DOMAIN document
    \/ DOMAIN document["values"] = {}
    \/ document["values"] = Null

\* C4: once get_terraform_state has parsed a document whose "values" is absent
\* or empty, the run can only raise "No Terraform state found.", and no HTTP
\* request is ever issued.
C4_NoValuesNoRequest ==
    (json_state # Null /\ LacksValues(json_state)) =>
        /\ http = <<>>
        /\ pc \in {"check_values", "failed"}
        /\ pc = "failed" => result = [raised |-> "No Terraform state found."]

\* a run that read a state whose "values" is an empty object and raised without
\* a request
C4_Witness ==
    /\ pc = "failed"
    /\ "values" \in DOMAIN json_state
    /\ DOMAIN json_state["values"] = {}
    /\ result = [raised |-> "No Terraform state found."]
    /\ http = <<>>

\* C5: the first request of a run, and only the first, is the GET of the public
\* key; it is there once create_all_secrets has got to its loop; a PUT is only
\* issued after that GET returned a 2xx status, and when the GET returns an
\* error status the run fails with no further request.
C5_OneGetBeforePuts ==
    /\ \A i \in DOMAIN http : (http[i].method = "GET") <=> (i = 1)
    /\ http # <<>> => http[1].url = PublicKeyUrl(repo_name)
    /\ Puts # {} => Is2xx(http[1].status)
    /\ (http # <<>> /\ http[1].status >= 400) => (pc = "failed" /\ Len(http) = 1)
    /\ (pc = "for_secret" \/ (pc = "done" /\ ~args.save)) => Len(http) >= 1

\* a run whose public key GET succeeded and was followed by two PUTs
C5_Witness ==
    /\ Len(http) = 3
    /\ http[1].method = "GET" /\ http[1].status = 200
    /\ http[2].method = "PUT" /\ http[3].method = "PUT"

WouldCreate ==
    LET records == SelectSeq(log, LAMBDA l : l.msg[1] = "Would create secret %s")
    IN  [i \in DOMAIN records |-> records[i].msg[2]]

\* C7: with dry_run true no PUT is ever issued and no secret is created: the
\* loop of create_all_secrets logs "Would create secret" for every secret it
\* has passed, in the mapping's order, whatever the size of the mapping.
C7_DryRunNoPut ==
    (~args.save /\ args.dry_run) =>
        /\ Puts = {}
        /\ ~\E i \in DOMAIN log : log[i].msg[1] = "Creating secret %s"
        /\ WouldCreate = [i \in 1..(position - 1) |-> all_secrets[i][1]]
        /\ pc = "done" => position = Len(all_secrets) + 1

\* a dry run over four secrets that ended with the one GET as its only request
C7_Witness ==
    /\ pc = "done"
    /\ args.dry_run
    /\ Len(all_secrets) = 4
    /\ Len(WouldCreate) = 4
    /\ Len(http) = 1

(***************************************************************************)
(* Properties of what main() collects from the state.                      *)
(***************************************************************************)
\* the places of the state's aws_iam_access_key resources
AccessKeyPlaces(state) == PlacesOfType(state, "aws_iam_access_key")

\* the users the state's access keys belong to
UsersOf(state) ==
    {ResourceAt(state, place)["values"]["user"] :
        place \in {p \in AccessKeyPlaces(state) :
                      "user" \in DOMAIN ResourceAt(state, p)["values"]}}

\* the place of the last access key of a user in traversal order
LastKeyOf(state, user) ==
    CHOOSE place \in AccessKeyPlaces(state) :
        /\ ResourceAt(state, place)["values"]["user"] = user
        /\ \A other \in AccessKeyPlaces(state) :
               (other # place /\ ResourceAt(state, other)["values"]["user"] = user)
                   => PreOrderBefore(other, place)

\* the two names of a user's credentials, with the user appended
SuffixedNames(user) ==
    {"AWS_ACCESS_KEY_ID" \o CharwiseSuffix(user),
     "AWS_SECRET_ACCESS_KEY" \o CharwiseSuffix(user)}

NoUsersWarning == Log("warning", <<"No users found.">>)

\* C12: get_users returns a mapping whose keys are exactly the users of the
\* state's aws_iam_access_key resources, each with the (id, secret) of the last
\* such resource of that user in traversal order; for a state without such a
\* resource it returns the empty mapping and logs a warning, and the run goes
\* on: it can fail later only at an HTTP request.
C12_GetUsersLastWins ==
    /\ pc = "create_user_secrets" =>
           LET users == UsersOf(terraform_state)
           IN  /\ DictKeys(user_creds) = users
               /\ Len(user_creds) = Cardinality(users)
               /\ \A user \in users :
                      LET last == ResourceAt(terraform_state,
                                             LastKeyOf(terraform_state, user))
                      IN  DictGet(user_creds, user)
                              = <<last["values"]["id"], last["values"]["secret"]>>
               /\ (\E i \in DOMAIN log : log[i] = NoUsersWarning) <=> users = {}
    /\ (/\ terraform_state # Null
        /\ \/ pc # "get_users" /\ user_creds # EmptyDict
           \/ pc = "failed" /\ result # [raised |-> "HTTPError"])
           => AccessKeyPlaces(terraform_state) # {}

\* a user with two keys, the first in the root module and the second in a child
\* module, mapped to the second
C12_Witness ==
    /\ pc = "create_user_secrets"
    /\ AccessKeyPlaces(terraform_state) = {<<<<>>, 1>>, <<<<1>>, 1>>}
    /\ ResourceAt(terraform_state, <<<<>>, 1>>)["values"]["id"] = "AKIA2"
    /\ ResourceAt(terraform_state, <<<<1>>, 1>>)["values"]["id"] = "AKIA1"
    /\ user_creds = <<<<UserA, <<"AKIA1", "wJalr1">>>>>>

(***************************************************************************)
(* get_resource_secrets and parse_tagged_outputs applied to every state of  *)
(* at most MainModules modules and MainResources resources made of tagged  *)
(* resources and of resources with outputs.                                *)
(***************************************************************************)
SecretTemplates ==
    {[type |-> "aws_iam_role",
      values |-> [arn |-> "arn:aws:iam::123:role/x",
                  tags |-> [GitHub_Secret_Name |-> "BUILD_ROLE_TO_ASSUME",
                            GitHub_Secret_Terraform_Lookup |-> "arn"]]],
     [type |-> "aws_iam_role",
      values |-> [arn |-> "arn:aws:iam::123:role/z",
                  tags |-> [GitHub_Secret_Name |-> "BUILD_ROLE_TO_ASSUME",
                            GitHub_Secret_Terraform_Lookup |-> "arn"]]],
     [type |-> "aws_s3_bucket",
      values |-> [arn |-> "arn:aws:s3:::bucket",
                  tags |-> [GitHub_Secret_Name |-> "BUCKET"]]],
     [type |-> "terraform_remote_state",
      values |-> [tags |-> Null,
                  outputs |-> <<<<"role", [value |-> "arn:aws:iam::123:role/out",
                                           tags |-> [GitHub_Secret_Name |-> "BUILD_ROLE_TO_ASSUME",
                                                     GitHub_Secret_Terraform_Lookup |-> "value"]]>>,
                                <<"DEPLOY_KEY", [value |-> "text"]>>>>]],
     [type |-> "terraform_remote_state",
      values |-> [outputs |-> <<<<"key", [value |-> "ssh-ed25519 AAAA",
                                          tags |-> [GitHub_Secret_Name |-> "DEPLOY_KEY",
                                                    GitHub_Secret_Terraform_Lookup |-> "value"]]>>,
                                <<"role", [value |-> "arn:aws:iam::123:role/out2",
                                           tags |-> [GitHub_Secret_Name |-> "BUILD_ROLE_TO_ASSUME",
                                                     GitHub_Secret_Terraform_Lookup |-> "value"]]>>>>]],
     [type |-> "terraform_remote_state", values |-> [outputs |-> <<>>]]}

InitSecrets ==
    /\ pc \in {"get_resource_secrets", "parse_tagged_outputs"}
    /\ args \in [terraform_state :
                     StatesOver(MainModules, MainResources, SecretTemplates, TRUE)]
    /\ result = <<>>
    /\ MainIdle

GetResourceSecrets ==
    /\ pc = "get_resource_secrets"
    /\ result' = get_resource_secrets(args.terraform_state)
    /\ pc' = "get_resource_secrets.returned"
    /\ UNCHANGED <<args, mainLocals>>

ParseTaggedOutputs ==
    /\ pc = "parse_tagged_outputs"
    /\ result' = parse_tagged_outputs(args.terraform_state)
    /\ pc' = "parse_tagged_outputs.returned"
    /\ UNCHANGED <<args, mainLocals>>

NextSecrets == GetResourceSecrets \/ ParseTaggedOutputs

SpecSecrets == InitSecrets /\ [][NextSecrets]_vars

\* Where a tagged secret can come from: the resource at a place, or the j-th
\* output of the i-th resource of the root module, written <<<<i>>, j>>.
ResourceOrigins(state) == {<<"resource", place>> : place \in Places(state)}

OutputsAt(state, i) == GetOr(ResourcesOf(RootOf(state))[i]["values"], "outputs", <<>>)

OutputOrigins(state) ==
    UNION {{<<"output", <<<<i>>, j>>>> : j \in DOMAIN OutputsAt(state, i)} :
           i \in DOMAIN ResourcesOf(RootOf(state))}

\* the data the tags are read from: the values of a resource, or an output
DataOf(state, origin) ==
    IF origin[1] = "resource" THEN ResourceAt(state, origin[2])["values"]
    ELSE OutputsAt(state, origin[2][1][1])[origin[2][2]][2]

\* the data carries both tags, set, and a value under the looked-up key
IsTagged(data) ==
    LET tags == ClaimedTags(data)
    IN  /\ HasText(tags, GITHUB_SECRET_NAME_TAG)
        /\ HasText(tags, GITHUB_SECRET_TERRAFORM_LOOKUP_TAG)
        /\ HasValue(data, tags[GITHUB_SECRET_TERRAFORM_LOOKUP_TAG])

TaggedName(data) == ClaimedTags(data)[GITHUB_SECRET_NAME_TAG]

TaggedValue(data) == data[ClaimedTags(data)[GITHUB_SECRET_TERRAFORM_LOOKUP_TAG]]

\* the combined order: the resources in traversal order, then the outputs in
\* the order of their resources and, within one resource, of its mapping
OriginBefore(a, b) ==
    IF a[1] # b[1] THEN a[1] = "resource"
    ELSE IF a[1] = "resource" THEN PreOrderBefore(a[2], b[2])
    ELSE \/ a[2][1][1] < b[2][1][1]
         \/ a[2][1][1] = b[2][1][1] /\ a[2][2] < b[2][2]

\* the tagged origins of a state
Matches(state) ==
    {origin \in ResourceOrigins(state) \cup OutputOrigins(state) :
        IsTagged(DataOf(state, origin))}

\* C13: get_resource_secrets returns the mapping whose names are those of the
\* tagged resources (anywhere in the state) and of the tagged outputs (of the
\* root module's resources), each name with the value of its latest match in
\* the combined order, resources in traversal order first and outputs after
\* them: a tagged output overrides a tagged resource of the same name.
C13_LatestMatchKept ==
    pc = "get_resource_secrets.returned" =>
        LET state == args.terraform_state
            matches == Matches(state)
        IN  /\ DictKeys(result.secrets) = {TaggedName(DataOf(state, m)) : m \in matches}
            /\ Len(result.secrets) = Cardinality(DictKeys(result.secrets))
            /\ \A m \in matches :
                   (\A other \in matches :
                        (other # m /\ TaggedName(DataOf(state, other))
                                          = TaggedName(DataOf(state, m)))
                            => OriginBefore(other, m))
                       => DictGet(result.secrets, TaggedName(DataOf(state, m)))
                              = TaggedValue(DataOf(state, m))

\* a tagged role in a child module overridden by a tagged output of the same
\* name on a resource of the root module, which precedes it in the traversal
C13_Witness ==
    /\ pc = "get_resource_secrets.returned"
    /\ Places(args.terraform_state) = {<<<<>>, 1>>, <<<<1>>, 1>>}
    /\ ResourceAt(args.terraform_state, <<<<1>>, 1>>)["values"]
           = [arn |-> "arn:aws:iam::123:role/z",
              tags |-> [GitHub_Secret_Name |-> "BUILD_ROLE_TO_ASSUME",
                        GitHub_Secret_Terraform_Lookup |-> "arn"]]
    /\ OutputsAt(args.terraform_state, 1) # <<>>
    /\ result.secrets = <<<<"BUILD_ROLE_TO_ASSUME", "arn:aws:iam::123:role/out">>>>

(***************************************************************************)
(* The warnings of find_tagged_secret (checked under SpecTagged).          *)
(***************************************************************************)
Warnings(logged) == SelectSeq(logged, LAMBDA record : record.level = "warning")

MissingLookupTag(resource_name) ==
    Log("warning", <<"Missing %s on %s.", GITHUB_SECRET_TERRAFORM_LOOKUP_TAG, resource_name>>)

LookupMiss(lookup_tag) == Log("warning", <<"Could not lookup value with key %s", lookup_tag>>)

\* C14 as stated: with the name tag present and no lookup tag, nothing is
\* yielded and exactly one warning is logged, naming the lookup tag constant;
\* with both tags present and the lookup key absent from the values, nothing is
\* yielded and exactly one warning is logged, naming the key; with the name tag
\* absent, or a secret yielded, no warning is logged.  (A null is counted as
\* absent here, so that the statement fails only where a tag that is a string
\* is present.)
C14_WarnsWhenPresent ==
    pc = "find_tagged_secret.returned" =>
        LET data == args.resource_data
            tags == ClaimedTags(data)
            name == HasValue(tags, GITHUB_SECRET_NAME_TAG)
            lookup == HasValue(tags, GITHUB_SECRET_TERRAFORM_LOOKUP_TAG)
        IN  /\ (name /\ ~lookup) =>
                   /\ result.yielded = <<>>
                   /\ Warnings(result.logged) = <<MissingLookupTag(args.resource_name)>>
            /\ (name /\ lookup /\ tags[GITHUB_SECRET_TERRAFORM_LOOKUP_TAG] \notin DOMAIN data) =>
                   /\ result.yielded = <<>>
                   /\ Warnings(result.logged)
                          = <<LookupMiss(tags[GITHUB_SECRET_TERRAFORM_LOOKUP_TAG])>>
            /\ (~name \/ result.yielded # <<>>) => Warnings(result.logged) = <<>>

\* C14 amended: with the name tag set (neither null nor empty) and the lookup
\* tag absent, null or empty, nothing is yielded and exactly one warning is
\* logged, naming the lookup tag constant and the resource; with both tags set
\* and no value, or null, under the lookup key in the values, nothing is
\* yielded and exactly one warning is logged, naming the key; with the name tag
\* absent, null or empty, or a secret yielded, no warning is logged.
C14_WarnsWhenSet ==
    pc = "find_tagged_secret.returned" =>
        LET data == args.resource_data
            tags == ClaimedTags(data)
            name == HasText(tags, GITHUB_SECRET_NAME_TAG)
            lookup == HasText(tags, GITHUB_SECRET_TERRAFORM_LOOKUP_TAG)
        IN  /\ (name /\ ~lookup) =>
                   /\ result.yielded = <<>>
                   /\ Warnings(result.logged) = <<MissingLookupTag(args.resource_name)>>
            /\ (name /\ lookup /\ ~HasValue(data, tags[GITHUB_SECRET_TERRAFORM_LOOKUP_TAG])) =>
                   /\ result.yielded = <<>>
                   /\ Warnings(result.logged)
                          = <<LookupMiss(tags[GITHUB_SECRET_TERRAFORM_LOOKUP_TAG])>>
            /\ (~name \/ result.yielded # <<>>) => Warnings(result.logged) = <<>>

\* both tags set, the lookup key absent from the values although the tags hold
\* a value under it: one warning naming the key
C14_Witness ==
    /\ pc = "find_tagged_secret.returned"
    /\ "tags" \in DOMAIN args.resource_data
    /\ args.resource_data["tags"] # Null
    /\ Get(args.resource_data["tags"], GITHUB_SECRET_NAME_TAG) = "BUILD_ROLE_TO_ASSUME"
    /\ Get(args.resource_data["tags"], GITHUB_SECRET_TERRAFORM_LOOKUP_TAG) = "arn"
    /\ "arn" \notin DOMAIN args.resource_data
    /\ result.yielded = <<>>
    /\ Warnings(result.logged) = <<LookupMiss("arn")>>

\* what the tag lookup is to yield for a piece of data
TaggedPairs(data) ==
    IF IsTagged(data) THEN <<<<TaggedName(data), TaggedValue(data)>>>> ELSE <<>>

\* C15: parse_tagged_outputs passes every entry of the outputs mappings of the
\* root module's own resources through the tag lookup, in order, and nothing
\* else: an entry of the outputs of a resource in a child module contributes
\* nothing, and a name yielded is the value of a name tag, never the name of
\* the output.
C15_OutputsOfRootOnly ==
    pc = "parse_tagged_outputs.returned" =>
        LET state == args.terraform_state
            origins == OutputOrigins(state)
        IN  /\ Len(result) = Cardinality(origins)
            /\ \A k \in DOMAIN result :
                   \E origin \in origins :
                       /\ Cardinality({q \in origins : OriginBefore(q, origin)}) = k - 1
                       /\ result[k].yielded = TaggedPairs(DataOf(state, origin))

\* a root resource with a tagged output and an untagged output named
\* DEPLOY_KEY, and a child-module resource with an output tagged DEPLOY_KEY:
\* only the root's tagged output gives a secret
C15_Witness ==
    /\ pc = "parse_tagged_outputs.returned"
    /\ Places(args.terraform_state) = {<<<<>>, 1>>, <<<<1>>, 1>>}
    /\ Len(OutputsAt(args.terraform_state, 1)) = 2
    /\ OutputsAt(args.terraform_state, 1)[1][1] = "role"
    /\ OutputsAt(args.terraform_state, 1)[2][1] = "DEPLOY_KEY"
    /\ LET outputs == GetOr(ResourceAt(args.terraform_state, <<<<1>>, 1>>)["values"],
                            "outputs", <<>>)
       IN  \E j \in DOMAIN outputs :
               IsTagged(outputs[j][2]) /\ TaggedName(outputs[j][2]) = "DEPLOY_KEY"
    /\ Len(result) = 2
    /\ result[1].yielded = <<<<"BUILD_ROLE_TO_ASSUME", "arn:aws:iam::123:role/out">>>>
    /\ result[2].yielded = <<>>

(***************************************************************************)
(* Further properties of a run of main().                                  *)
(***************************************************************************)
\* some aws_iam_access_key resource of the state lacks its id, secret or user
IncompleteKey(state) ==
    \E place \in AccessKeyPlaces(state) :
        ~({"id", "secret", "user"} \subseteq DOMAIN ResourceAt(state, place)["values"])

\* C16: when some aws_iam_access_key resource anywhere in the state lacks its
\* id, secret or user, get_users raises KeyError: no credential mapping is
\* returned, not even for the keys found before, and the run ends without a
\* public-key GET or a secret PUT.
C16_IncompleteKeyAborts ==
    (/\ terraform_state # Null
     /\ ~(/\ http = <<>>
          /\ user_creds = EmptyDict
          /\ user_secrets = EmptyDict
          /\ all_secrets = EmptyDict
          /\ pc \in {"get_users", "failed"}
          /\ pc = "failed" => result = [raised |-> "KeyError"]))
        => ~IncompleteKey(terraform_state)

\* a run that failed on an incomplete key in a child module after it had found
\* a complete key in the root module
C16_Witness ==
    /\ pc = "failed"
    /\ result = [raised |-> "KeyError"]
    /\ terraform_state # Null
    /\ AccessKeyPlaces(terraform_state) = {<<<<>>, 1>>, <<<<1>>, 1>>}
    /\ DOMAIN ResourceAt(terraform_state, <<<<>>, 1>>)["values"] = {"id", "secret", "user"}
    /\ IncompleteKey(terraform_state)
    /\ \E i \in DOMAIN log : log[i].msg = <<"Found credentials for user: %s", "a">>
    /\ user_creds = EmptyDict
    /\ http = <<>>

\* the values of the name tags set on the resources of the state and on the
\* outputs of the root module's resources
NameTagsOf(state) ==
    {ClaimedTags(DataOf(state, origin))[GITHUB_SECRET_NAME_TAG] :
        origin \in {o \in ResourceOrigins(state) \cup OutputOrigins(state) :
                       HasText(ClaimedTags(DataOf(state, o)), GITHUB_SECRET_NAME_TAG)}}

\* the names a run on the state may emit
AllowedNames(state) ==
    {"AWS_ACCESS_KEY_ID", "AWS_SECRET_ACCESS_KEY"}
    \cup UNION {SuffixedNames(user) : user \in UsersOf(state)}
    \cup NameTagsOf(state)

\* the secret names the run has published or reported so far
EmittedNames ==
    {log[i].msg[2] : i \in {k \in DOMAIN log :
                               log[k].msg[1] \in {"Would create secret %s",
                                                  "Creating secret %s"}}}

\* C17: every secret name a run publishes (the name in the URL of a PUT) or
\* reports (in a dry run) is AWS_ACCESS_KEY_ID or AWS_SECRET_ACCESS_KEY, alone
\* or followed by the suffix derived from a user of the state, or is the value
\* of a GitHub_Secret_Name tag of a resource or an output of the state.
C17_OnlyKnownNames ==
    IF terraform_state = Null
    THEN Puts = {} /\ EmittedNames = {} /\ all_secrets = EmptyDict
    ELSE LET allowed == AllowedNames(terraform_state)
         IN  /\ DictKeys(all_secrets) \subseteq allowed
             /\ EmittedNames \subseteq allowed
             /\ \A i \in Puts :
                    \E name \in allowed : http[i].url = SecretUrl(repo_name, name)

\* a run that published the two credential names and a tag-derived name
C17_Witness ==
    /\ pc = "done"
    /\ ~args.dry_run
    /\ \E i \in Puts : http[i].url = SecretUrl(repo_name, "BUILD_ROLE_TO_ASSUME")
    /\ \E i \in Puts : http[i].url = SecretUrl(repo_name, "AWS_SECRET_ACCESS_KEY")
    /\ EmittedNames = {"AWS_ACCESS_KEY_ID", "AWS_SECRET_ACCESS_KEY", "BUILD_ROLE_TO_ASSUME"}

\* the tokens of the run: the one given and the one the keyring holds
Tokens == {args.token, args.token_to_save, keyring, github_token} \ {None}

Schemes == {GitAt, Https, <<"h", "t", "t", "p", ":", "/", "/">>}

Hosts == {GithubCom,
          <<"g", "i", "t", "h", "u", "b", "b", "c", "o", "m">>,
          <<"g", "i", "t", "l", "a", "b", ".", "c", "o", "m">>}

Separators == {<<":">>, <<"/">>}

RepoNames == {<<"o", "/", "r">>,
              <<"c", "i", "s", "a", "g", "o", "v", "/", "t", "-", "s">>,
              <<"o", "/", "r", ".", "g", "i", "t", "h", "u", "b">>}

Urls ==
    {scheme \o host \o separator \o name \o suffix \o ending :
        scheme \in Schemes, host \in Hosts, separator \in Separators,
        name \in RepoNames, suffix \in {<<>>, DotGit}, ending \in {<<>>, <<"\n">>}}

InitRepo ==
    /\ pc = "get_repo_name"
    /\ args \in {[returncode |-> 0, stdout |-> url, stderr |-> ""] : url \in Urls}
                \cup {[returncode |-> 128, stdout |-> url,
                       stderr |-> "fatal: not a git repository"] : url \in Urls \cup {<<>>}}
    /\ result = <<>>
    /\ MainIdle

GetRepoName ==
    /\ pc = "get_repo_name"
    /\ result' = get_repo_name(args)
    /\ pc' = "get_repo_name.returned"
    /\ UNCHANGED <<args, mainLocals>>

NextRepo == GetRepoName

SpecRepo == InitRepo /\ [][NextRepo]_vars

\* C19: when git exits 0 and prints git@github.com:OWNER/REPO or
\* https://github.com/OWNER/REPO, with or without ".git" after it, followed by
\* a newline, get_repo_name returns exactly OWNER/REPO, without the ".git" and
\* without the newline.
C19_RepoNameOfGoodUrl ==
    pc = "get_repo_name.returned" =>
        \A prefix \in {GitAt \o GithubCom \o <<":">>, Https \o GithubCom \o <<"/">>},
           name \in RepoNames, suffix \in {<<>>, DotGit} :
            (args.returncode = 0 /\ args.stdout = prefix \o name \o suffix \o <<"\n">>) =>
                /\ ~result.raised
                /\ result.repo_name = Join(name)

\* the name cisagov/t-s returned for the https URL that ends in ".git" and a newline
C19_Witness ==
    /\ pc = "get_repo_name.returned"
    /\ args.returncode = 0
    /\ args.stdout = Https \o GithubCom \o <<"/">>
                         \o <<"c", "i", "s", "a", "g", "o", "v", "/", "t", "-", "s">>
                         \o DotGit \o <<"\n">>
    /\ result.repo_name = "cisagov/t-s"
    /\ ~result.raised

Criticals(logged) == SelectSeq(logged, LAMBDA record : record.level = "critical")

CouldNotDetermine == "Could not determine GitHub repository name."

\* C20: get_repo_name returns no value when it fails.  When git exits non-zero
\* it logs exactly one critical message and raises an exception carrying git's
\* stderr; when git exits 0 and the host of the URL is not literally github.com
\* it logs exactly the two critical messages "Could not determine GitHub
\* repository name." and "Use the --repo option to specify it manually.", in
\* that order, and raises an exception with the first as its message.
C20_NoNameOnFailure ==
    pc = "get_repo_name.returned" =>
        /\ result.raised => result.repo_name = None
        /\ args.returncode # 0 =>
               /\ result.raised
               /\ result.exception = args.stderr
               /\ Criticals(result.logged) = <<Log("critical", <<CouldNotDetermine>>)>>
        /\ \A scheme \in Schemes, host \in Hosts \ {GithubCom}, separator \in Separators,
              name \in RepoNames, suffix \in {<<>>, DotGit}, ending \in {<<>>, <<"\n">>} :
               (/\ args.returncode = 0
                /\ args.stdout = scheme \o host \o separator \o name \o suffix \o ending) =>
                   /\ result.raised
                   /\ result.exception = CouldNotDetermine
                   /\ Criticals(result.logged)
                          = <<Log("critical", <<CouldNotDetermine>>),
                              Log("critical",
                                  <<"Use the --repo option to specify it manually.">>)>>

\* the URL of the host githubbcom refused with the two critical messages
C20_Witness ==
    /\ pc = "get_repo_name.returned"
    /\ args.returncode = 0
    /\ args.stdout = GitAt \o <<"g", "i", "t", "h", "u", "b", "b", "c", "o", "m">>
                         \o <<":", "o", "/", "r">> \o DotGit \o <<"\n">>
    /\ result.raised
    /\ result.exception = CouldNotDetermine
    /\ Len(Criticals(result.logged)) = 2

(***************************************************************************)
(* The requests of a run of main() that is not a dry run.                  *)
(***************************************************************************)
SuccessRecords == {i \in DOMAIN log : log[i].msg = <<"Success!">>}

\* C21: in a run that is not a dry run, as long as every HTTP call has
\* succeeded, the requests are the one GET of the public key followed by one
\* PUT for each entry of the merged mapping the loop has passed, in the
\* mapping's order, each for a different name and each carrying the value
\* sealed for the key, and the key id, that the GET of this run returned; when
\* the run is done there is exactly one PUT per entry, and "Success!" is the
\* last record of the log, logged once and only then.
C21_OnePutPerEntryInOrder ==
    (~args.save /\ ~args.dry_run) =>
        /\ pc \in {"for_secret", "done"} =>
               /\ Len(http) = position
               /\ http[1].method = "GET"
               /\ \A i \in 1..(position - 1) :
                      /\ http[i + 1].method = "PUT"
                      /\ Is2xx(http[i + 1].status)
                      /\ http[i + 1].url = SecretUrl(repo_name, all_secrets[i][1])
                      /\ http[i + 1].json
                             = [encrypted_value |-> [sealed_for |-> public_key["key"],
                                                     plaintext |-> all_secrets[i][2]],
                                key_id |-> public_key["key_id"]]
               /\ \A i, j \in 2..Len(http) : i # j => http[i].url # http[j].url
        /\ pc = "done" =>
               /\ position = Len(all_secrets) + 1
               /\ SuccessRecords = {Len(log)}
        /\ pc # "done" => SuccessRecords = {}

\* a finished run that PUT a tag-derived secret before the two credential
\* secrets, the order of the mapping and not the sorted one, with the id of
\* the second public key
C21_Witness ==
    /\ pc = "done"
    /\ ~args.save
    /\ ~args.dry_run
    /\ public_key # Null
    /\ public_key["key_id"] = "kid2"
    /\ Len(http) = 4
    /\ [i \in 1..3 |-> http[i + 1].url]
           = <<SecretUrl(repo_name, "BUILD_ROLE_TO_ASSUME"),
               SecretUrl(repo_name, "AWS_ACCESS_KEY_ID"),
               SecretUrl(repo_name, "AWS_SECRET_ACCESS_KEY")>>
    /\ \A i \in 2..4 : http[i].json.key_id = "kid2"
    /\ log[Len(log)].msg = <<"Success!">>


====
